---- MODULE Spec2Model ----
(***************************************************************************)
(* A model of wordle.cpp: the feedback computation (Word::compute_marks),   *)
(* the word-list parser (parse_words), the thread pool and the scoring      *)
(* batch (ThreadPool, compute_sum_of_squares_ranks), the ranking step       *)
(* (print_best_sum_of_squares_ranks) and main.                              *)
(*                                                                         *)
(* C++ containers indexed from 0 are functions with domain 0..n-1; the      *)
(* pool's std::queue is a sequence.                                         *)
(***************************************************************************)
EXTENDS Integers, Sequences, FiniteSets, TLC

VARIABLES
    \* ---- Word::compute_marks, one call
    guess, target,      \* the two words of the call (this->word_, target.word_)
    cm,                 \* the call's position and locals: phase, marks, used_target, used_word
    \* ---- parse_words, one call
    text,               \* file_contents
    parsed,             \* the returned vector of words
    parsePc,            \* "call" before the call, "returned" after it
    \* ---- print_best_sum_of_squares_ranks, called on the same arguments by several runs
    rkWords, rkRanks, rkShow,   \* words, ranks, show_count
    rkOut,              \* run -> the lines the run wrote to std::cout
    rkDone,             \* run -> whether the run has returned
    \* ---- main: parse, ThreadPool + compute_sum_of_squares_ranks, print
    wordsFile, targetsFile,     \* contents of words.txt / targets.txt, or Missing
    hw,                 \* std::thread::hardware_concurrency()
    words, targets,     \* the parsed lists (main's locals)
    pc,                 \* thread -> position; thread 0 is the main thread
    nthreads,           \* threads_.size()
    mtx,                \* mtx_: the thread holding it, or NoThread
    queue,              \* queue_: the captured index i of each queued task
    func,               \* worker -> the task it moved out of the queue (run's local)
    result,             \* the score table
    subI,               \* the loop index of the submit loop (line 176)
    joinI,              \* the loop index of wait (line 60)
    printed,            \* the lines main's print wrote to std::cout
    written,            \* history: index -> number of stores to result[index]
    execs,              \* history: task index -> number of times its body ran
    \* ---- one scoring task (the lambda of lines 177-187), step by step
    aggGuess, aggTargets,       \* words[i] and targets
    agg                 \* the task's position and locals: m, marks_count, sum_of_squares, stored

marksVars == <<guess, target, cm>>
parseVars == <<text, parsed, parsePc>>
rankVars  == <<rkWords, rkRanks, rkShow, rkOut, rkDone>>
mainVars  == <<wordsFile, targetsFile, hw, words, targets, pc, nthreads, mtx, queue,
               func, result, subI, joinI, printed, written, execs>>
aggVars   == <<aggGuess, aggTargets, agg>>
vars == <<marksVars, parseVars, rankVars, mainVars, aggVars>>
othersOfMain  == <<marksVars, parseVars, rankVars, aggVars>>
othersOfMarks == <<parseVars, rankVars, mainVars, aggVars>>
othersOfParse == <<marksVars, rankVars, mainVars, aggVars>>
othersOfRank  == <<marksVars, parseVars, mainVars, aggVars>>
othersOfAgg   == <<marksVars, parseVars, rankVars, mainVars>>

(***************************************************************************)
(* Bounds of the model and constants of the program                        *)
(***************************************************************************)
WordLen == 5            \* std::array<char, 5>
NumLetters == 2         \* letters a word is drawn from in the compute_marks runs
MaxTextLen == 9         \* longest file_contents given to parse_words alone
MaxGuesses == 3         \* most quoted words in words.txt
MaxTargets == 2         \* most quoted words in targets.txt
MaxHardware == 3        \* largest hardware_concurrency()
MaxRankN == 3           \* most guesses given to the ranking step alone
MaxRank == 1            \* largest score given to the ranking step alone
MaxAggTargets == 3      \* most targets given to one scoring task alone

Alphabet == <<"a", "b", "c", "d", "e">>
Letters == {Alphabet[k] : k \in 1..NumLetters}
Quote == "\""
Positions == 0..(WordLen - 1)
Words == [Positions -> Letters]

Min(a, b) == IF a < b THEN a ELSE b
Max(a, b) == IF a < b THEN b ELSE a

(***************************************************************************)
(* class Marks: five groups of two bits in a uint32_t                      *)
(***************************************************************************)
Unset == 0
Absent == 1
WrongPosition == 2
Correct == 3

\* Marks(): marks_(0)
MarksInit == 0

\* the two bits of group i
Slot(m, i) == (m \div (4 ^ i)) % 4

\* Marks::set: marks_ &= ~(3 << 2i); marks_ ^= mask << 2i
MarksSet(m, i, mask) ==
    LET cleared == m - Slot(m, i) * (4 ^ i)
    IN  cleared + mask * (4 ^ i)

set_correct(m, i) == MarksSet(m, i, 3)
set_wrong_spot(m, i) == MarksSet(m, i, 2)
set_none(m, i) == MarksSet(m, i, 1)

(***************************************************************************)
(* Word::compute_marks                                                     *)
(***************************************************************************)
\* Marks marks; std::bitset<5> used_target{}, used_word{};
MarksLocals ==
    [marks |-> MarksInit,
     used_target |-> [k \in Positions |-> FALSE],
     used_word |-> [k \in Positions |-> FALSE]]

\* the first loop (lines 118-124), from index i on
RECURSIVE Pass1From(_, _, _, _)
Pass1From(st, w, t, i) ==
    IF i >= WordLen THEN st
    ELSE IF w[i] = t[i]
         THEN Pass1From([marks |-> set_correct(st.marks, i),
                         used_target |-> [st.used_target EXCEPT ![i] = TRUE],
                         used_word |-> [st.used_word EXCEPT ![i] = TRUE]],
                        w, t, i + 1)
         ELSE Pass1From(st, w, t, i + 1)

Pass1(st, w, t) == Pass1From(st, w, t, 0)

\* the inner loop over j (lines 128-133) for one i: it has no break
RECURSIVE Pass2Inner(_, _, _, _, _)
Pass2Inner(st, w, t, i, j) ==
    IF j >= WordLen THEN st
    ELSE IF w[i] = t[j] /\ ~st.used_target[j]
         THEN Pass2Inner([st EXCEPT !.used_word[i] = TRUE, !.used_target[j] = TRUE],
                         w, t, i, j + 1)
         ELSE Pass2Inner(st, w, t, i, j + 1)

\* the second loop (lines 126-135), from index i on
RECURSIVE Pass2From(_, _, _, _)
Pass2From(st, w, t, i) ==
    IF i >= WordLen THEN st
    ELSE IF ~st.used_word[i]
         THEN Pass2From(Pass2Inner(st, w, t, i, 0), w, t, i + 1)
         ELSE Pass2From(st, w, t, i + 1)

Pass2(st, w, t) == Pass2From(st, w, t, 0)

\* a third loop that marks every position, consumed or not
RECURSIVE Pass3FromUnguarded(_, _)
Pass3FromUnguarded(st, i) ==
    IF i >= WordLen THEN st
    ELSE Pass3FromUnguarded([st EXCEPT !.marks = set_none(st.marks, i)], i + 1)

\* the third loop (lines 137-141), from index i on
RECURSIVE Pass3From(_, _)
Pass3From(st, i) ==
    IF i >= WordLen THEN st
    ELSE IF ~st.used_word[i]
         THEN Pass3From([st EXCEPT !.marks = set_none(st.marks, i)], i + 1)
         ELSE Pass3From(st, i + 1)

Pass3(st) == Pass3From(st, 0)

compute_marks(w, t) == Pass3(Pass2(Pass1(MarksLocals, w, t), w, t)).marks

(***************************************************************************)
(* One call of compute_marks, pass by pass                                 *)
(***************************************************************************)
IdleMarks ==
    /\ guess = <<>>
    /\ target = <<>>
    /\ cm = [phase |-> "idle"]

InitMarks ==
    /\ guess \in Words
    /\ target \in Words
    /\ cm = [phase |-> "entry", st |-> MarksLocals]

DoPass1 ==
    /\ cm.phase = "entry"
    /\ cm' = [phase |-> "pass1", st |-> Pass1(cm.st, guess, target)]
    /\ UNCHANGED <<guess, target>>
    /\ UNCHANGED othersOfMarks

DoPass2 ==
    /\ cm.phase = "pass1"
    /\ cm' = [phase |-> "pass2", st |-> Pass2(cm.st, guess, target)]
    /\ UNCHANGED <<guess, target>>
    /\ UNCHANGED othersOfMarks

DoPass3 ==
    /\ cm.phase = "pass2"
    /\ cm' = [phase |-> "returned", st |-> Pass3(cm.st)]
    /\ UNCHANGED <<guess, target>>
    /\ UNCHANGED othersOfMarks

(***************************************************************************)
(* std::vector / std::span as functions with domain 0..size-1              *)
(***************************************************************************)
Empty == <<>>
Size(v) == Cardinality(DOMAIN v)
PushBack(v, x) == [k \in 0..Size(v) |-> IF k < Size(v) THEN v[k] ELSE x]
Vectors(S, n) == [0..(n - 1) -> S]
VectorsUpTo(S, n) == UNION {Vectors(S, k) : k \in 0..n}
\* the concatenation of two vectors
Concat(u, v) ==
    [k \in 0..(Size(u) + Size(v) - 1) |-> IF k < Size(u) THEN u[k] ELSE v[k - Size(u)]]

(***************************************************************************)
(* read_whole_file and parse_words                                         *)
(***************************************************************************)
\* a file of the working directory: whether it can be opened, and what it holds
File(contents) == [readable |-> TRUE, contents |-> contents]
Missing == [readable |-> FALSE, contents |-> Empty]

\* an ifstream that failed to open yields no characters
read_whole_file(file) == IF file.readable THEN file.contents ELSE Empty

\* const size_t none = ~(size_t)0: a value no index of file_contents equals
None == -1

\* Word(std::span<const char, 5>): file_contents.subspan(from).subspan<0, 5>()
WordAt(file_contents, from) == [k \in Positions |-> file_contents[from + k]]

\* the loop of lines 158-169, from index i on
RECURSIVE ParseFrom(_, _, _, _)
ParseFrom(file_contents, i, last_quote, ws) ==
    IF i >= Size(file_contents) THEN ws
    ELSE IF file_contents[i] = Quote
         THEN IF last_quote = None
              THEN ParseFrom(file_contents, i + 1, i, ws)
              ELSE IF i - last_quote = 6
                   THEN ParseFrom(file_contents, i + 1, None,
                                  PushBack(ws, WordAt(file_contents, last_quote + 1)))
                   ELSE ParseFrom(file_contents, i + 1, last_quote, ws)
         ELSE ParseFrom(file_contents, i + 1, last_quote, ws)

parse_words(file_contents) == ParseFrom(file_contents, 0, None, Empty)

(***************************************************************************)
(* One call of parse_words                                                 *)
(***************************************************************************)
Chars == {Quote, "a", " "}

IdleParse ==
    /\ text = Empty
    /\ parsed = Empty
    /\ parsePc = "idle"

InitParse ==
    /\ text \in VectorsUpTo(Chars, MaxTextLen)
    /\ parsed = Empty
    /\ parsePc = "call"

DoParse ==
    /\ parsePc = "call"
    /\ parsed' = parse_words(text)
    /\ parsePc' = "returned"
    /\ UNCHANGED text
    /\ UNCHANGED othersOfParse

(***************************************************************************)
(* print_best_sum_of_squares_ranks                                         *)
(***************************************************************************)
\* (size_t)-1, what main passes as show_count; only min(show_count, n) reads it
SizeMax == 2147483647

\* auto compare = [ranks](size_t i, size_t j) { return ranks[i] < ranks[j]; }
compare(ranks, i, j) == ranks[i] < ranks[j]

\* the one-to-one vectors of length k over the set S
RECURSIVE OneToOne(_, _)
OneToOne(k, S) ==
    IF k = 0 THEN {Empty}
    ELSE UNION {{PushBack(p, x) : p \in OneToOne(k - 1, S \ {x})} : x \in S}

\* the permutations of 0..n-1
Rearrangements(n) == OneToOne(n, 0..(n - 1))

\* an nth_element that leaves the range as it is
nth_element_unmoved(indices, nth, ranks) == {indices}

\* std::ranges::nth_element(indices, indices.begin() + nth, compare): every
\* rearrangement the algorithm's postcondition allows (the standard fixes no order
\* among the elements of either part, nor among equivalent elements)
nth_element(indices, nth, ranks) ==
    LET n == Size(indices)
    IN  {q \in {[k \in 0..(n - 1) |-> indices[p[k]]] : p \in Rearrangements(n)} :
            /\ \A a \in 0..(n - 1), b \in 0..(n - 1) :
                   (a < nth /\ b >= nth) => ~compare(ranks, q[b], q[a])
            /\ \A b \in 0..(n - 1) :
                   (nth < n /\ b > nth) => ~compare(ranks, q[b], q[nth])}

\* std::ranges::sort(best_indices, compare): not stable, so every sorted rearrangement
sort(best, ranks) ==
    LET n == Size(best)
    IN  {q \in {[k \in 0..(n - 1) |-> best[p[k]]] : p \in Rearrangements(n)} :
            \A a \in 0..(n - 1), b \in 0..(n - 1) :
                a < b => ~compare(ranks, q[b], q[a])}

\* indices.subspan(0, count)
subspan(v, count) == [k \in 0..(count - 1) |-> v[k]]

\* the lines written for best_indices: word, ' ', rank
Lines(ws, ranks, best) == [k \in DOMAIN best |-> <<ws[best[k]], ranks[best[k]]>>]

\* every output the call can write
print_best_sum_of_squares_ranks(ws, ranks, show_count_arg) ==
    LET n == Size(ws)
        show_count == Min(show_count_arg, n)
        iota == [k \in 0..(n - 1) |-> k]
    IN  UNION {{Lines(ws, ranks, best) : best \in sort(subspan(indices, show_count), ranks)} :
                  indices \in nth_element(iota, show_count, ranks)}

(***************************************************************************)
(* Several runs of print_best_sum_of_squares_ranks on the same arguments   *)
(***************************************************************************)
Runs == {"first", "second"}

\* the word spelled by a tuple of characters
WordOf(s) == [k \in Positions |-> s[k + 1]]

WordPool ==
    << WordOf(<<"a", "a", "b", "b", "b">>), WordOf(<<"a", "b", "a", "b", "a">>),
       WordOf(<<"b", "b", "a", "a", "b">>), WordOf(<<"b", "a", "b", "a", "b">>) >>
PoolWord(k) == WordPool[(k % Len(WordPool)) + 1]

IdleRank ==
    /\ rkWords = Empty
    /\ rkRanks = Empty
    /\ rkShow = 0
    /\ rkOut = Empty
    /\ rkDone = Empty

InitRank ==
    /\ rkWords \in VectorsUpTo({PoolWord(0), PoolWord(1)}, MaxRankN)
    /\ rkRanks \in Vectors(0..MaxRank, Size(rkWords))
    /\ rkShow \in (0..(MaxRankN + 1)) \cup {SizeMax}
    /\ rkOut = [r \in Runs |-> Empty]
    /\ rkDone = [r \in Runs |-> FALSE]

DoPrint(r) ==
    /\ ~rkDone[r]
    /\ \E out \in print_best_sum_of_squares_ranks(rkWords, rkRanks, rkShow) :
           rkOut' = [rkOut EXCEPT ![r] = out]
    /\ rkDone' = [rkDone EXCEPT ![r] = TRUE]
    /\ UNCHANGED <<rkWords, rkRanks, rkShow>>
    /\ UNCHANGED othersOfRank

(***************************************************************************)
(* The task body of compute_sum_of_squares_ranks (lines 177-187)            *)
(***************************************************************************)
\* a count that is set to 1 instead of incremented
count_target_resets(mc, key) ==
    [k \in DOMAIN mc \cup {key} |-> IF k = key THEN 1 ELSE mc[k]]

\* marks_count[key]++ (line 180): operator[] inserts a zero count for a new key
count_target(mc, key) ==
    [k \in DOMAIN mc \cup {key} |->
        IF k = key THEN (IF key \in DOMAIN mc THEN mc[key] ELSE 0) + 1 ELSE mc[k]]

\* marks_count after the loop of lines 179-181 has processed the first m targets
RECURSIVE marks_count(_, _, _)
marks_count(w, ts, m) ==
    IF m = 0 THEN Empty
    ELSE count_target(marks_count(w, ts, m - 1), compute_marks(w, ts[m - 1]))

\* a sum of the counts instead of their squares
RECURSIVE SumOfCountsOver(_, _)
SumOfCountsOver(mc, keys) ==
    IF keys = {} THEN 0
    ELSE LET k == CHOOSE x \in keys : \A y \in keys : x <= y
         IN  mc[k] + SumOfCountsOver(mc, keys \ {k})

\* a sum that starts from 1 instead of 0 (line 182)
RECURSIVE SumOfSquaresFromOne(_, _)
SumOfSquaresFromOne(mc, keys) ==
    IF keys = {} THEN 1
    ELSE LET k == CHOOSE x \in keys : \A y \in keys : x <= y
         IN  mc[k] * mc[k] + SumOfSquaresFromOne(mc, keys \ {k})

\* the loop of lines 183-185 over the keys not yet visited, in key order
RECURSIVE SumOfSquaresOver(_, _)
SumOfSquaresOver(mc, keys) ==
    IF keys = {} THEN 0
    ELSE LET k == CHOOSE x \in keys : \A y \in keys : x <= y
         IN  mc[k] * mc[k] + SumOfSquaresOver(mc, keys \ {k})

sum_of_squares(w, ts) ==
    LET mc == marks_count(w, ts, Size(ts))
    IN  SumOfSquaresOver(mc, DOMAIN mc)

(***************************************************************************)
(* One scoring task, step by step                                          *)
(***************************************************************************)
IdleAgg ==
    /\ aggGuess = Empty
    /\ aggTargets = Empty
    /\ agg = [pc |-> "idle"]

InitAgg ==
    /\ aggGuess \in {PoolWord(k) : k \in 0..(Len(WordPool) - 1)}
    /\ aggTargets \in VectorsUpTo({PoolWord(k) : k \in 0..(Len(WordPool) - 1)}, MaxAggTargets)
    /\ agg = [pc |-> "loop", m |-> 0, marks_count |-> Empty, sum_of_squares |-> 0,
              stored |-> 0]

\* lines 179-181, one iteration: marks_count[words[i].compute_marks(target)]++
AggCount ==
    /\ agg.pc = "loop"
    /\ agg.m < Size(aggTargets)
    /\ agg' = [agg EXCEPT
                 !.marks_count = count_target(@, compute_marks(aggGuess, aggTargets[agg.m])),
                 !.m = @ + 1]
    /\ UNCHANGED <<aggGuess, aggTargets>>
    /\ UNCHANGED othersOfAgg

\* lines 182-185, once the loop over the targets has ended
AggSum ==
    /\ agg.pc = "loop"
    /\ agg.m >= Size(aggTargets)
    /\ agg' = [agg EXCEPT
                 !.sum_of_squares = SumOfSquaresOver(agg.marks_count, DOMAIN agg.marks_count),
                 !.pc = "store"]
    /\ UNCHANGED <<aggGuess, aggTargets>>
    /\ UNCHANGED othersOfAgg

\* line 186: result[i] = sum_of_squares
AggStore ==
    /\ agg.pc = "store"
    /\ agg' = [agg EXCEPT !.stored = agg.sum_of_squares, !.pc = "done"]
    /\ UNCHANGED <<aggGuess, aggTargets>>
    /\ UNCHANGED othersOfAgg

(***************************************************************************)
(* main: the word-list files, ThreadPool, compute_sum_of_squares_ranks     *)
(***************************************************************************)
MainThread == 0
NoThread == -1          \* mtx_ is free
NoTask == -1            \* run's local func holds no task
MaxThreads == Max(MaxHardware, 1)
Workers == 1..nthreads

\* a word-list file: each word between a pair of double quotes, one per line
QuotedLine(w) ==
    [k \in 0..(WordLen + 2) |->
        IF k = 0 \/ k = WordLen + 1 THEN Quote
        ELSE IF k = WordLen + 2 THEN "\n" ELSE w[k - 1]]

RECURSIVE FileOf(_, _)
FileOf(ws, n) ==
    IF n = 0 THEN Empty ELSE Concat(FileOf(ws, n - 1), QuotedLine(ws[n - 1]))

WordsFiles ==
    {Missing} \cup {File(FileOf([k \in 0..(n - 1) |-> PoolWord(k)], n)) : n \in 0..MaxGuesses}
TargetsFiles ==
    {Missing} \cup {File(FileOf([k \in 0..(n - 1) |-> PoolWord(k + 1)], n)) : n \in 0..MaxTargets}

IdleMain ==
    /\ wordsFile = Missing
    /\ targetsFile = Missing
    /\ hw = 0
    /\ words = Empty
    /\ targets = Empty
    /\ pc = Empty
    /\ nthreads = 0
    /\ mtx = NoThread
    /\ queue = <<>>
    /\ func = Empty
    /\ result = Empty
    /\ subI = 0
    /\ joinI = 0
    /\ printed = Empty
    /\ written = Empty
    /\ execs = Empty

InitMain ==
    /\ wordsFile \in WordsFiles
    /\ targetsFile \in TargetsFiles
    /\ hw \in 0..MaxHardware
    /\ words = Empty
    /\ targets = Empty
    /\ pc = [t \in 0..MaxThreads |-> IF t = MainThread THEN "parse_words" ELSE "unborn"]
    /\ nthreads = 0
    /\ mtx = NoThread
    /\ queue = <<>>
    /\ func = [t \in 1..MaxThreads |-> NoTask]
    /\ result = Empty
    /\ subI = 0
    /\ joinI = 0
    /\ printed = Empty
    /\ written = Empty
    /\ execs = Empty

\* line 214
MainParseWords ==
    /\ pc[MainThread] = "parse_words"
    /\ words' = parse_words(read_whole_file(wordsFile))
    /\ pc' = [pc EXCEPT ![MainThread] = "parse_targets"]
    /\ UNCHANGED <<wordsFile, targetsFile, hw, targets, nthreads, mtx, queue, func,
                   result, subI, joinI, printed, written, execs>>
    /\ UNCHANGED othersOfMain

\* line 215
MainParseTargets ==
    /\ pc[MainThread] = "parse_targets"
    /\ targets' = parse_words(read_whole_file(targetsFile))
    /\ pc' = [pc EXCEPT ![MainThread] = "compute"]
    /\ UNCHANGED <<wordsFile, targetsFile, hw, words, nthreads, mtx, queue, func,
                   result, subI, joinI, printed, written, execs>>
    /\ UNCHANGED othersOfMain

\* ThreadPool::ThreadPool: threads = std::max(threads, (size_t)1)
pool_size(threads) == Max(threads, 1)

\* lines 174-176: the zeroed table, the pool with its threads started, the loop entered
ComputeEntry ==
    /\ pc[MainThread] = "compute"
    /\ result' = [k \in 0..(Size(words) - 1) |-> 0]
    /\ written' = [k \in 0..(Size(words) - 1) |-> 0]
    /\ execs' = [k \in 0..(Size(words) - 1) |-> 0]
    /\ nthreads' = pool_size(hw)
    /\ subI' = 0
    /\ pc' = [t \in 0..MaxThreads |->
                 IF t = MainThread
                 THEN (IF 0 < Size(words) THEN "submit_lock" ELSE "wait")
                 ELSE IF t <= pool_size(hw) THEN "run_lock" ELSE pc[t]]
    /\ UNCHANGED <<wordsFile, targetsFile, hw, words, targets, mtx, queue, func,
                   joinI, printed>>
    /\ UNCHANGED othersOfMain

\* ThreadPool::submit, line 52: std::unique_lock lock(mtx_)
SubmitLock ==
    /\ pc[MainThread] = "submit_lock"
    /\ mtx = NoThread
    /\ mtx' = MainThread
    /\ pc' = [pc EXCEPT ![MainThread] = "submit_push"]
    /\ UNCHANGED <<wordsFile, targetsFile, hw, words, targets, nthreads, queue, func,
                   result, subI, joinI, printed, written, execs>>
    /\ UNCHANGED othersOfMain

\* line 53: queue_.push(std::move(func)); the task captured i = subI
SubmitPush ==
    /\ pc[MainThread] = "submit_push"
    /\ queue' = Append(queue, subI)
    /\ pc' = [pc EXCEPT ![MainThread] = "submit_unlock"]
    /\ UNCHANGED <<wordsFile, targetsFile, hw, words, targets, nthreads, mtx, func,
                   result, subI, joinI, printed, written, execs>>
    /\ UNCHANGED othersOfMain

\* line 54: the lock's destructor; then i++ and the loop test of line 176
SubmitUnlock ==
    /\ pc[MainThread] = "submit_unlock"
    /\ mtx' = NoThread
    /\ subI' = subI + 1
    /\ pc' = [pc EXCEPT ![MainThread] =
                 IF subI + 1 < Size(words) THEN "submit_lock" ELSE "wait"]
    /\ UNCHANGED <<wordsFile, targetsFile, hw, words, targets, nthreads, queue, func,
                   result, joinI, printed, written, execs>>
    /\ UNCHANGED othersOfMain

\* ThreadPool::wait, lines 60-62: thread.join() of the next thread
WaitJoin ==
    /\ pc[MainThread] = "wait"
    /\ joinI < nthreads
    /\ pc[joinI + 1] = "done"
    /\ joinI' = joinI + 1
    /\ UNCHANGED <<wordsFile, targetsFile, hw, words, targets, pc, nthreads, mtx, queue,
                   func, result, subI, printed, written, execs>>
    /\ UNCHANGED othersOfMain

\* wait returns (line 63); compute_sum_of_squares_ranks returns result (line 190)
WaitReturn ==
    /\ pc[MainThread] = "wait"
    /\ joinI = nthreads
    /\ pc' = [pc EXCEPT ![MainThread] = "print"]
    /\ UNCHANGED <<wordsFile, targetsFile, hw, words, targets, nthreads, mtx, queue,
                   func, result, subI, joinI, printed, written, execs>>
    /\ UNCHANGED othersOfMain

\* line 217: print_best_sum_of_squares_ranks(words, ranks, -1)
MainPrint ==
    /\ pc[MainThread] = "print"
    /\ \E out \in print_best_sum_of_squares_ranks(words, result, SizeMax) :
           printed' = out
    /\ pc' = [pc EXCEPT ![MainThread] = "exit"]
    /\ UNCHANGED <<wordsFile, targetsFile, hw, words, targets, nthreads, mtx, queue,
                   func, result, subI, joinI, written, execs>>
    /\ UNCHANGED othersOfMain

(***************************************************************************)
(* ThreadPool::run, one worker w                                           *)
(***************************************************************************)
\* a pop that leaves the front element in the queue
pop_keeps_front(q) == q

\* queue_.pop()
pop(q) == Tail(q)

\* the slot of result the task that captured i stores to (line 186)
task_slot(i) == i

\* a lock that is taken without waiting for the mutex to be free
RunLockNoWait(w) ==
    /\ pc[w] = "run_lock"
    /\ mtx' = w
    /\ pc' = [pc EXCEPT ![w] = "run_test"]
    /\ UNCHANGED <<wordsFile, targetsFile, hw, words, targets, nthreads, queue, func,
                   result, subI, joinI, printed, written, execs>>
    /\ UNCHANGED othersOfMain

\* line 23: mtx_.lock()
RunLock(w) ==
    /\ pc[w] = "run_lock"
    /\ mtx = NoThread
    /\ mtx' = w
    /\ pc' = [pc EXCEPT ![w] = "run_test"]
    /\ UNCHANGED <<wordsFile, targetsFile, hw, words, targets, nthreads, queue, func,
                   result, subI, joinI, printed, written, execs>>
    /\ UNCHANGED othersOfMain

\* line 24: while (queue_.size())
RunTest(w) ==
    /\ pc[w] = "run_test"
    /\ pc' = [pc EXCEPT ![w] = IF Len(queue) # 0 THEN "run_pop" ELSE "run_exit"]
    /\ UNCHANGED <<wordsFile, targetsFile, hw, words, targets, nthreads, mtx, queue,
                   func, result, subI, joinI, printed, written, execs>>
    /\ UNCHANGED othersOfMain

\* lines 25-26: auto func = std::move(queue_.front()); queue_.pop()
RunPop(w) ==
    /\ pc[w] = "run_pop"
    /\ func' = [func EXCEPT ![w] = Head(queue)]
    /\ queue' = pop(queue)
    /\ pc' = [pc EXCEPT ![w] = "run_unlock"]
    /\ UNCHANGED <<wordsFile, targetsFile, hw, words, targets, nthreads, mtx,
                   result, subI, joinI, printed, written, execs>>
    /\ UNCHANGED othersOfMain

\* line 27: mtx_.unlock()
RunUnlock(w) ==
    /\ pc[w] = "run_unlock"
    /\ mtx' = NoThread
    /\ pc' = [pc EXCEPT ![w] = "run_func"]
    /\ UNCHANGED <<wordsFile, targetsFile, hw, words, targets, nthreads, queue, func,
                   result, subI, joinI, printed, written, execs>>
    /\ UNCHANGED othersOfMain

\* line 28: func(), the task body of lines 178-186; func is destroyed at line 30
RunFunc(w) ==
    /\ pc[w] = "run_func"
    /\ LET i == func[w]
       IN  /\ result' = [result EXCEPT ![task_slot(i)] = sum_of_squares(words[i], targets)]
           /\ written' = [written EXCEPT ![task_slot(i)] = @ + 1]
           /\ execs' = [execs EXCEPT ![i] = @ + 1]
    /\ pc' = [pc EXCEPT ![w] = "run_relock"]
    /\ UNCHANGED <<wordsFile, targetsFile, hw, words, targets, nthreads, mtx, queue,
                   func, subI, joinI, printed>>
    /\ UNCHANGED othersOfMain

\* line 29: mtx_.lock()
RunRelock(w) ==
    /\ pc[w] = "run_relock"
    /\ mtx = NoThread
    /\ mtx' = w
    /\ func' = [func EXCEPT ![w] = NoTask]
    /\ pc' = [pc EXCEPT ![w] = "run_test"]
    /\ UNCHANGED <<wordsFile, targetsFile, hw, words, targets, nthreads, queue,
                   result, subI, joinI, printed, written, execs>>
    /\ UNCHANGED othersOfMain

\* a return from run that leaves the mutex locked
RunExitKeepsMutex(w) ==
    /\ pc[w] = "run_exit"
    /\ pc' = [pc EXCEPT ![w] = "done"]
    /\ UNCHANGED <<wordsFile, targetsFile, hw, words, targets, nthreads, mtx, queue, func,
                   result, subI, joinI, printed, written, execs>>
    /\ UNCHANGED othersOfMain

\* line 31: mtx_.unlock(), and run returns
RunExit(w) ==
    /\ pc[w] = "run_exit"
    /\ mtx' = NoThread
    /\ pc' = [pc EXCEPT ![w] = "done"]
    /\ UNCHANGED <<wordsFile, targetsFile, hw, words, targets, nthreads, queue, func,
                   result, subI, joinI, printed, written, execs>>
    /\ UNCHANGED othersOfMain

(***************************************************************************)
(* Specifications                                                          *)
(***************************************************************************)
\* the whole program
Init == InitMain /\ IdleMarks /\ IdleParse /\ IdleRank /\ IdleAgg

Next ==
    \/ MainParseWords
    \/ MainParseTargets
    \/ ComputeEntry
    \/ SubmitLock
    \/ SubmitPush
    \/ SubmitUnlock
    \/ WaitJoin
    \/ WaitReturn
    \/ MainPrint
    \/ \E w \in Workers : RunLock(w)
    \/ \E w \in Workers : RunTest(w)
    \/ \E w \in Workers : RunPop(w)
    \/ \E w \in Workers : RunUnlock(w)
    \/ \E w \in Workers : RunFunc(w)
    \/ \E w \in Workers : RunRelock(w)
    \/ \E w \in Workers : RunExit(w)

Spec == Init /\ [][Next]_vars

\* the steps of the main thread up to the return of wait, and the steps of worker w
MainUntilPrint ==
    \/ MainParseWords
    \/ MainParseTargets
    \/ ComputeEntry
    \/ SubmitLock
    \/ SubmitPush
    \/ SubmitUnlock
    \/ WaitJoin
    \/ WaitReturn

WorkerNext(w) ==
    \/ RunLock(w)
    \/ RunTest(w)
    \/ RunPop(w)
    \/ RunUnlock(w)
    \/ RunFunc(w)
    \/ RunRelock(w)
    \/ RunExit(w)

\* the whole program on an empty target list, with the main thread scheduled fairly
\* until wait has returned and every worker scheduled fairly
FairInit == Init /\ targetsFile = Missing

FairSpec ==
    /\ FairInit
    /\ [][Next]_vars
    /\ WF_vars(MainUntilPrint)
    /\ \A w \in 1..MaxThreads : WF_vars(WorkerNext(w))

\* one call of compute_marks on every pair of words
MarksInitState == InitMarks /\ IdleParse /\ IdleRank /\ IdleMain /\ IdleAgg

MarksNext == DoPass1 \/ DoPass2 \/ DoPass3

MarksSpec == MarksInitState /\ [][MarksNext]_vars

\* one call of parse_words on every text
ParseInitState == InitParse /\ IdleMarks /\ IdleRank /\ IdleMain /\ IdleAgg

ParseNext == DoParse

ParseSpec == ParseInitState /\ [][ParseNext]_vars

\* the ranking step, run several times on the same arguments
RankInitState == InitRank /\ IdleMarks /\ IdleParse /\ IdleMain /\ IdleAgg

RankNext == \E r \in Runs : DoPrint(r)

RankSpec == RankInitState /\ [][RankNext]_vars

(***************************************************************************)
(* Properties of the scoring batch (Spec)                                  *)
(***************************************************************************)
Returned == pc[MainThread] \in {"print", "exit"}
Parsed == pc[MainThread] \notin {"parse_words", "parse_targets"}
Started == pc[MainThread] \notin {"parse_words", "parse_targets", "compute"}

\* C1: when compute_sum_of_squares_ranks has returned, result[i] is the score of
\* guesses[i] evaluated sequentially against the targets, for every i and under
\* every interleaving
ParallelEqualsSequential ==
    Returned => \A i \in DOMAIN result : result[i] = sum_of_squares(words[i], targets)

\* C2: if some worker has returned from run, every task of the batch has been
\* enqueued and dequeued
NoWorkerExitsEarly ==
    \A w \in Workers :
        pc[w] = "done" => /\ pc[MainThread] \in {"wait", "print", "exit"}
                          /\ queue = <<>>

\* C3: when wait has returned, every submitted task has run to completion, the
\* queue is empty and no task is running
WaitMeansAllWorkDone ==
    Returned => /\ \A i \in DOMAIN execs : execs[i] >= 1
                /\ queue = <<>>
                /\ \A w \in Workers : pc[w] # "run_func"

\* C10: the task for guess i stores only to result[i] and runs at most once, a
\* popped task is held by the one worker that popped it and is no longer queued,
\* and the guess and target lists stay as parsed
DisjointSingleShotWrites ==
    Started =>
        /\ \A i \in DOMAIN written : written[i] <= 1 /\ execs[i] <= 1 /\ written[i] = execs[i]
        /\ \A w1 \in Workers, w2 \in Workers :
               (w1 # w2 /\ func[w1] # NoTask) => func[w1] # func[w2]
        /\ \A w \in Workers, k \in 1..Len(queue) : queue[k] # func[w]
        /\ \A k1 \in 1..Len(queue), k2 \in 1..Len(queue) : queue[k1] = queue[k2] => k1 = k2
        /\ \A w \in Workers :
               (pc[w] \in {"run_unlock", "run_func"}) => execs[func[w]] = 0
        /\ words = parse_words(read_whole_file(wordsFile))
        /\ targets = parse_words(read_whole_file(targetsFile))

\* C10 witness: two workers run two different tasks at the same time after a
\* third task has stored its score
TwoTasksRunAfterOneStored ==
    /\ \E w1 \in Workers, w2 \in Workers :
           w1 # w2 /\ pc[w1] = "run_func" /\ pc[w2] = "run_func" /\ func[w1] # func[w2]
    /\ \E i \in DOMAIN written : written[i] = 1

(***************************************************************************)
(* Properties of compute_marks (MarksSpec)                                 *)
(***************************************************************************)
\* The specified three-pass feedback, slot by slot.  SpecifiedConsumed is the set of
\* target positions consumed once pass 1 and the pass-2 turns of the guess positions
\* below i are over: a guess position not matched in pass 1 consumes the leftmost
\* target position that holds its letter and is not consumed yet, and only that one.
RECURSIVE SpecifiedConsumed(_, _, _)
SpecifiedConsumed(w, t, i) ==
    IF i = 0 THEN {j \in Positions : w[j] = t[j]}
    ELSE LET before == SpecifiedConsumed(w, t, i - 1)
             free == {j \in Positions : w[i - 1] = t[j] /\ j \notin before}
         IN  IF w[i - 1] = t[i - 1] \/ free = {} THEN before
             ELSE before \cup {CHOOSE j \in free : \A o \in free : j <= o}

SpecifiedSlot(w, t, i) ==
    IF w[i] = t[i] THEN Correct
    ELSE IF \E j \in Positions : w[i] = t[j] /\ j \notin SpecifiedConsumed(w, t, i)
         THEN WrongPosition
         ELSE Absent

RECURSIVE Encode(_, _, _)
Encode(w, t, n) ==
    IF n = 0 THEN 0 ELSE Encode(w, t, n - 1) + SpecifiedSlot(w, t, n - 1) * (4 ^ (n - 1))

Count(c, w) == Cardinality({i \in Positions : w[i] = c})

\* C4: compute_marks returns the feedback code of the specified three-pass
\* algorithm for every pair of words
MarksAreSpecifiedFeedback ==
    cm.phase = "returned" => cm.st.marks = Encode(guess, target, WordLen)

\* C5: the code compute_marks returns has no slot left Unset
NoSlotLeftUnset ==
    cm.phase = "returned" => \A i \in Positions : Slot(cm.st.marks, i) # Unset

\* C6: for every letter c, the number of guess positions holding c that are marked
\* Absent is max(0, count of c in guess - count of c in target)
AbsentAreTheExcess ==
    cm.phase = "returned" =>
        \A c \in Letters :
            Cardinality({i \in Positions : guess[i] = c /\ Slot(cm.st.marks, i) = Absent})
                = Max(0, Count(c, guess) - Count(c, target))

(***************************************************************************)
(* Properties of parse_words (ParseSpec)                                   *)
(***************************************************************************)
\* The words of the quoted spans of exactly WordLen characters, in input order: the
\* double quotes pair up in order of appearance, opening then closing.
RECURSIVE QuotedWordsFrom(_, _, _, _)
QuotedWordsFrom(fc, i, open, ws) ==
    IF i >= Size(fc) THEN ws
    ELSE IF fc[i] # Quote THEN QuotedWordsFrom(fc, i + 1, open, ws)
         ELSE IF open = None THEN QuotedWordsFrom(fc, i + 1, i, ws)
              ELSE IF i - open = WordLen + 1
                   THEN QuotedWordsFrom(fc, i + 1, None, PushBack(ws, WordAt(fc, open + 1)))
                   ELSE QuotedWordsFrom(fc, i + 1, None, ws)

\* C7: parse_words returns, in input order, exactly the words enclosed in a pair of
\* double quotes with exactly 5 characters between them; a quoted span of another
\* length contributes nothing and drops no later word
ParseReturnsQuotedWords ==
    parsePc = "returned" => parsed = QuotedWordsFrom(text, 0, None, Empty)

(***************************************************************************)
(* Properties of the ranking step (RankSpec)                               *)
(***************************************************************************)
\* C8: two runs of the ranking step on the same guesses, scores and k emit the same
\* sequence
RankOutputIsDeterministic ==
    (\A r \in Runs : rkDone[r]) => \A r1 \in Runs, r2 \in Runs : rkOut[r1] = rkOut[r2]

(***************************************************************************)
(* Properties of main on empty word lists (Spec)                           *)
(***************************************************************************)
Exited == pc[MainThread] = "exit"

\* the lines are the given words, each once, in some order, each with score 0
EveryWordWithScoreZero(lines, ws) ==
    /\ Size(lines) = Size(ws)
    /\ \E p \in Rearrangements(Size(ws)) :
           \A k \in DOMAIN lines : lines[k] = <<ws[p[k]], 0>>

\* C9 as stated: a run with zero guesses or zero targets emits no (word, score) entry
EmptyInputEmitsNothing ==
    (Exited /\ (Size(words) = 0 \/ Size(targets) = 0)) => Size(printed) = 0

\* C9 as amended: a missing file is parsed as the empty list; a run with zero guesses
\* or zero targets is never stuck before main exits; with zero guesses it emits
\* nothing, and with zero targets it emits every guess once with score 0
EmptyInputRunCompletes ==
    /\ (pc[MainThread] # "parse_words" /\ ~wordsFile.readable) => Size(words) = 0
    /\ (Parsed /\ ~targetsFile.readable) => Size(targets) = 0
    /\ (Parsed /\ (Size(words) = 0 \/ Size(targets) = 0)) => (Exited \/ ENABLED Next)
    /\ (Exited /\ Size(words) = 0) => Size(printed) = 0
    /\ (Exited /\ Size(targets) = 0) => EveryWordWithScoreZero(printed, words)

\* C9 witness: main has exited on a missing targets.txt after a task of a non-empty
\* guess list ran
MissingTargetsRunExited ==
    /\ Exited
    /\ ~targetsFile.readable
    /\ Size(words) >= 2
    /\ \E i \in DOMAIN execs : execs[i] = 1
    /\ Size(printed) = Size(words)

\* one scoring task on every guess and target list
AggInitState == InitAgg /\ IdleMarks /\ IdleParse /\ IdleRank /\ IdleMain

AggNext == AggCount \/ AggSum \/ AggStore

AggSpec == AggInitState /\ [][AggNext]_vars

(***************************************************************************)
(* One run of the ranking step for every table and every show_count        *)
(***************************************************************************)
TopKInitState == InitRank /\ IdleMarks /\ IdleParse /\ IdleMain /\ IdleAgg

TopKNext == DoPrint("first")

TopKSpec == TopKInitState /\ [][TopKNext]_vars

(***************************************************************************)
(* Properties of the ranking step for every k (TopKSpec)                   *)
(***************************************************************************)
\* the lines are the entries of the table at the indices idx, in that order
LinesOf(lines, idx) ==
    \A k \in DOMAIN lines : lines[k] = <<rkWords[idx[k]], rkRanks[idx[k]]>>

\* C11: the ranking step emits exactly min(k, n) entries, each a (guess, score) pair
\* of the table with no index repeated, in non-decreasing order of score, and no
\* guess left out has a strictly lower score than an emitted one
TopKContract ==
    \A r \in Runs :
        rkDone[r] =>
            LET n == Size(rkWords)
                m == Min(rkShow, n)
            IN  /\ Size(rkOut[r]) = m
                /\ \A a \in DOMAIN rkOut[r], b \in DOMAIN rkOut[r] :
                       a < b => rkOut[r][a][2] <= rkOut[r][b][2]
                /\ \E idx \in [0..(m - 1) -> 0..(n - 1)] :
                       /\ \A a \in 0..(m - 1), b \in 0..(m - 1) : idx[a] = idx[b] => a = b
                       /\ LinesOf(rkOut[r], idx)
                       /\ \A j \in 0..(n - 1) :
                              (\A a \in 0..(m - 1) : idx[a] # j) =>
                                  \A a \in 0..(m - 1) : rkRanks[j] >= rkRanks[idx[a]]

\* C11 witness: a run asked for fewer entries than there are guesses has emitted
\* them, leaving out a guess with a strictly higher score that comes first in the table
TopKLeftOutAWorseGuess ==
    /\ rkDone["first"]
    /\ rkShow >= 1
    /\ rkShow < Size(rkWords)
    /\ Size(rkOut["first"]) = rkShow
    /\ \A k \in DOMAIN rkOut["first"] : rkRanks[0] > rkOut["first"][k][2]

(***************************************************************************)
(* Properties of one scoring task (AggSpec)                                *)
(***************************************************************************)
\* the feedback codes g produces against the targets, and how many targets produce c
CodesOf(g, ts) == {compute_marks(g, ts[k]) : k \in DOMAIN ts}
Producing(g, ts, c) == Cardinality({k \in DOMAIN ts : compute_marks(g, ts[k]) = c})

RECURSIVE SquaresOfClasses(_, _, _)
SquaresOfClasses(g, ts, codes) ==
    IF codes = {} THEN 0
    ELSE LET c == CHOOSE x \in codes : TRUE
         IN  Producing(g, ts, c) * Producing(g, ts, c) + SquaresOfClasses(g, ts, codes \ {c})

RECURSIVE TotalCount(_, _)
TotalCount(mc, keys) ==
    IF keys = {} THEN 0
    ELSE LET k == CHOOSE x \in keys : TRUE
         IN  mc[k] + TotalCount(mc, keys \ {k})

\* C12: the value the task stores is the sum, over the distinct feedback codes the
\* guess produces, of the square of the number of targets producing the code; it is
\* 0 for an empty target list
StoredIsSumOfSquaredClassSizes ==
    agg.pc = "done" =>
        /\ agg.stored = SquaresOfClasses(aggGuess, aggTargets, CodesOf(aggGuess, aggTargets))
        /\ Size(aggTargets) = 0 => agg.stored = 0

\* C12 witness: a task has stored 5, the score of one class of two targets and one
\* class of one target
StoredFiveForClassesOfTwoAndOne ==
    /\ agg.pc = "done"
    /\ Size(aggTargets) = 3
    /\ Cardinality(CodesOf(aggGuess, aggTargets)) = 2
    /\ agg.stored = 5

\* C13: after the first m targets the counts of the histogram sum to m, every
\* bucket holds at least 1, and once the loop has ended m is the number of targets
HistogramPartitionsTargets ==
    agg.pc # "idle" =>
        /\ TotalCount(agg.marks_count, DOMAIN agg.marks_count) = agg.m
        /\ \A k \in DOMAIN agg.marks_count : agg.marks_count[k] >= 1
        /\ agg.pc \in {"store", "done"} => agg.m = Size(aggTargets)

\* C13 witness: the loop has counted two targets into one bucket and has a third
\* target still to count
TwoTargetsInOneBucketMidLoop ==
    /\ agg.pc = "loop"
    /\ agg.m = 2
    /\ Size(aggTargets) = 3
    /\ Cardinality(DOMAIN agg.marks_count) = 1

(***************************************************************************)
(* Properties of the exact matches of compute_marks (MarksSpec)            *)
(***************************************************************************)
\* C14: once pass 1 has run, and after pass 2 and pass 3 as well, slot i is Correct
\* if and only if guess[i] = target[i]; compute_marks(w, w) is Correct in all slots
CorrectIffSameLetterSamePlace ==
    cm.phase \in {"pass1", "pass2", "returned"} =>
        /\ \A i \in Positions : (Slot(cm.st.marks, i) = Correct) <=> (guess[i] = target[i])
        /\ guess = target => \A i \in Positions : Slot(cm.st.marks, i) = Correct

\* C14 witness: a call has returned for two different words that agree at one
\* position and where pass 2 consumed another guess position
ReturnedWithExactAndConsumed ==
    /\ cm.phase = "returned"
    /\ \E i \in Positions : guess[i] = target[i] /\ Slot(cm.st.marks, i) = Correct
    /\ \E i \in Positions : guess[i] # target[i] /\ cm.st.used_word[i]

\* the guess positions and the target positions holding letter l that are consumed
ConsumedGuess(l) == {i \in Positions : cm.st.used_word[i] /\ guess[i] = l}
ConsumedTarget(l) == {j \in Positions : cm.st.used_target[j] /\ target[j] = l}

\* C15: at the end of pass 2 the consumption is a one-to-one matching of guess
\* positions with target positions holding the same letter, so for every letter as
\* many guess positions as target positions are consumed
ConsumptionIsOneToOne ==
    cm.phase \in {"pass2", "returned"} =>
        \A l \in Letters : Cardinality(ConsumedGuess(l)) = Cardinality(ConsumedTarget(l))

(***************************************************************************)
(* Properties of the pool's mutex (Spec, FairSpec)                         *)
(***************************************************************************)
\* the threads that are between a lock of the mutex and the unlock that follows it
InCriticalSection ==
    {w \in Workers : pc[w] \in {"run_test", "run_pop", "run_unlock", "run_exit"}}
    \cup (IF pc[MainThread] \in {"submit_push", "submit_unlock"} THEN {MainThread} ELSE {})

\* the threads that are about to read or change the queue
TouchingQueue ==
    {w \in Workers : pc[w] \in {"run_test", "run_pop"}}
    \cup (IF pc[MainThread] = "submit_push" THEN {MainThread} ELSE {})

\* C17: at most one thread is in a critical section and it is the holder of the
\* mutex; a thread that reads or changes the queue holds the mutex; a worker that
\* is executing a task body does not hold it
LockDiscipline ==
    /\ Cardinality(InCriticalSection) <= 1
    /\ InCriticalSection = (IF mtx = NoThread THEN {} ELSE {mtx})
    /\ \A t \in TouchingQueue : mtx = t
    /\ \A w \in Workers : pc[w] = "run_func" => mtx # w /\ w \notin InCriticalSection

\* C17 witness: two workers are executing task bodies while the main thread holds
\* the mutex to push a third task
TwoBodiesRunWhileMainPushes ==
    /\ pc[MainThread] = "submit_push"
    /\ mtx = MainThread
    /\ \E v, w \in Workers : v # w /\ pc[v] = "run_func" /\ pc[w] = "run_func"

\* the threads that have not finished, and those that wait for the mutex or a join
LiveThreads ==
    {w \in Workers : pc[w] # "done"}
    \cup (IF pc[MainThread] # "exit" THEN {MainThread} ELSE {})

BlockedThreads ==
    {w \in Workers : pc[w] \in {"run_lock", "run_relock"} /\ mtx # NoThread}
    \cup (IF \/ pc[MainThread] = "submit_lock" /\ mtx # NoThread
             \/ pc[MainThread] = "wait" /\ joinI < nthreads /\ pc[joinI + 1] # "done"
          THEN {MainThread} ELSE {})

\* C16: in no state are all live threads blocked on the mutex or on a join; under
\* fair scheduling every started worker returns from run without the mutex, and a
\* call to wait returns
TerminationWithoutDeadlock ==
    /\ [](LiveThreads # {} => LiveThreads # BlockedThreads)
    /\ \A w \in 1..MaxThreads : (pc[w] = "run_lock") ~> (pc[w] = "done" /\ mtx # w)
    /\ (pc[MainThread] = "wait") ~> (pc[MainThread] = "print" /\ mtx = NoThread)

\* C16 witness: wait has returned after two workers and two submitted tasks, with
\* every worker back from run and the mutex free
WaitReturnedFromTwoWorkers ==
    /\ pc[MainThread] = "print"
    /\ nthreads >= 2
    /\ subI >= 2
    /\ \A w \in Workers : pc[w] = "done"
    /\ mtx = NoThread

====
